---- MODULE Spec2Model ----
(***************************************************************************)
(* A model of the word Markov model: the Dictionary (word list + set view, *)
(* n-gram extraction) and WordMarkovModel (train, generate_word,           *)
(* find_word_probability, find_most_probable_words).                       *)
(*                                                                         *)
(* A Python str is a sequence of one-character strings.  A probability is  *)
(* a Python float: an IEEE 754 binary64 value, every division, product and *)
(* subtraction rounded to nearest even as the interpreter rounds it.       *)
(***************************************************************************)
EXTENDS Integers, Sequences, FiniteSets, TLC

VARIABLES
    words,                \* Dictionary.words      (ordered list)
    words_set,            \* Dictionary.words_set  (set view)
    model_order,          \* WordMarkovModel.model_order
    ngrams_counter,       \* WordMarkovModel.ngrams_counter
    transitions,          \* WordMarkovModel.transitions (set by train)
    trained,              \* whether the attribute transitions exists
    trainings,            \* how many times train() ran
    raised,               \* the exception a call ended with, or "none"
    fwp,                  \* the last find_word_probability call and its result
    gw_pc,                \* generate_word: "idle", "loop", "done"
    min_length,           \* generate_word argument
    max_length,           \* generate_word argument
    word,                 \* generate_word local
    next_character,       \* generate_word local
    gw_steps,             \* generate_word: loop iterations run
    gw_forced,            \* generate_word: END was returned as the only variant
    gw_result,            \* generate_word: returned string
    gw_ngram,             \* generate_word: the last ngram looked up
    fm_pc,                \* find_most_probable_words: "idle", "loop", "done"
    words_count,          \* find_most_probable_words argument
    most_probable_words,  \* find_most_probable_words local
    most_probable_queue,  \* find_most_probable_words local (the entries held)
    iteration,            \* find_most_probable_words local
    max_queue_size,       \* find_most_probable_words local
    current_entry,        \* find_most_probable_words local (last entry got)
    fm_ngram,             \* find_most_probable_words: the last ngram looked up
    fm_result             \* find_most_probable_words: returned list of (word, probability)

dict_vars  == <<words, words_set>>
model_vars == <<model_order, ngrams_counter, transitions, trained, trainings>>
gw_vars    == <<gw_pc, min_length, max_length, word, next_character, gw_steps,
                gw_forced, gw_result, gw_ngram>>
fm_vars    == <<fm_pc, words_count, most_probable_words, most_probable_queue,
                iteration, max_queue_size, current_entry, fm_ngram, fm_result>>
vars       == <<dict_vars, model_vars, raised, fwp, gw_vars, fm_vars>>

----------------------------------------------------------------------------
(* Bounds of the model *)

MaxWords == 2       \* words in an initial dictionary
MaxWordLen == 2     \* length of a word of an initial dictionary
MaxStrLen == 3      \* length a word may reach under map_words
MaxOrder == 2       \* model orders 0..MaxOrder
MaxLen == 2         \* generate_word: min_length, max_length in 0..MaxLen
MaxK == 4           \* find_most_probable_words: words_count in 1..MaxK
MaxQueryLen == 2    \* find_word_probability: length of the queried word
MaxTrainings == 2   \* train() calls

----------------------------------------------------------------------------
(* Strings *)

\* a str is a sequence of characters
START_CHARACTER == <<"^">>
END_CHARACTER == <<"$">>
SUM_KEY == <<"#", "#", "s", "u", "m">>

Letters == {"a", "b"}

\* ord() of the characters used; Python compares str by code point
Code(c) ==
    CASE c = "$" -> 36
      [] c = "A" -> 65
      [] c = "^" -> 94
      [] c = "a" -> 97
      [] c = "b" -> 98
      [] c = "c" -> 99
      [] c = "n" -> 110
      [] c = "r" -> 114
      [] c = "t" -> 116
      [] c = "x" -> 120

RECURSIVE StrLess(_, _)
\* s < t for Python str
StrLess(s, t) ==
    IF t = <<>> THEN FALSE
    ELSE IF s = <<>> THEN TRUE
    ELSE IF Head(s) # Head(t) THEN Code(Head(s)) < Code(Head(t))
    ELSE StrLess(Tail(s), Tail(t))

Range(f) == {f[i] : i \in DOMAIN f}

RECURSIVE Repeat(_, _)
\* c * n
Repeat(c, n) == IF n <= 0 THEN <<>> ELSE <<c>> \o Repeat(c, n - 1)

\* s[i:j] with 0 <= i, j (Python slice, 0-based, clamped to len(s))
Slice(s, i, j) ==
    LET hi == IF j > Len(s) THEN Len(s) ELSE j
    IN  IF i >= hi THEN <<>> ELSE SubSeq(s, i + 1, hi)

\* s[-n:] : for n = 0 the index -0 is 0, so the whole string is returned
LastN(s, n) ==
    IF n = 0 THEN s
    ELSE IF n >= Len(s) THEN s
    ELSE SubSeq(s, Len(s) - n + 1, Len(s))

RECURSIVE SeqsUpTo(_, _)
\* all sequences over S of length <= n
SeqsUpTo(S, n) ==
    IF n = 0 THEN {<<>>}
    ELSE LET shorter == SeqsUpTo(S, n - 1)
         IN  shorter \cup {Append(s, x) : s \in {t \in shorter : Len(t) = n - 1}, x \in S}

RECURSIVE Insert(_, _)
Insert(w, sorted) ==
    IF sorted = <<>> THEN <<w>>
    ELSE IF StrLess(w, Head(sorted)) THEN <<w>> \o sorted
    ELSE <<Head(sorted)>> \o Insert(w, Tail(sorted))

RECURSIVE Sorted(_)
\* list.sort()
Sorted(list) == IF list = <<>> THEN <<>> ELSE Insert(Head(list), Sorted(Tail(list)))

----------------------------------------------------------------------------
(* Dictionary *)

\* The predicates handed to filter_words
Predicates ==
    {[kind |-> "longer", n |-> n] : n \in 0..MaxWordLen}
    \cup {[kind |-> "starts_with", c |-> <<"a">>]}

ApplyPredicate(p, w) ==
    IF p.kind = "longer" THEN Len(w) > p.n
    ELSE Len(w) > 0 /\ <<w[1]>> = p.c

\* The transforms handed to map_words
Transforms == {"lower", "append_x", "drop_first"}

Lower(c) == IF c = "A" THEN "a" ELSE c

ApplyTransform(t, w) ==
    CASE t = "lower"      -> [i \in 1..Len(w) |-> Lower(w[i])]
      [] t = "append_x"   -> w \o <<"x">>
      [] t = "drop_first" -> IF w = <<>> THEN w ELSE Tail(w)

\* Dictionary.__init__: the list as loaded, the set built from it, the list sorted
DictionaryInit(loaded, sort) ==
    /\ words = IF sort THEN Sorted(loaded) ELSE loaded
    /\ words_set = Range(loaded)

RECURSIVE FilterWordsList(_, _)
\* list(filter(filter_predicate, self.words))
FilterWordsList(filter_predicate, list) ==
    IF list = <<>> THEN <<>>
    ELSE (IF ApplyPredicate(filter_predicate, Head(list)) THEN <<Head(list)>> ELSE <<>>)
         \o FilterWordsList(filter_predicate, Tail(list))

FilterWordsSet(filter_predicate, set) ==
    {w \in set : ApplyPredicate(filter_predicate, w)}

filter_words(filter_predicate) ==
    /\ words' = FilterWordsList(filter_predicate, words)
    /\ words_set' = FilterWordsSet(filter_predicate, words_set)

MapWordsList(transform, list) ==
    [i \in 1..Len(list) |-> ApplyTransform(transform, list[i])]

\* set(map(transform, self.words)) reads self.words after it was reassigned
MapWordsSet(transform, new_words) ==
    {ApplyTransform(transform, w) : w \in Range(new_words)}

map_words(transform) ==
    /\ words' = MapWordsList(transform, words)
    /\ words_set' = MapWordsSet(transform, words')

\* Dictionary.__contains__
Contains(w) == w \in words_set

\* build_ngram_for without the START padding
build_ngram_for_unpadded(substring, ngram_length) == LastN(substring, ngram_length)

\* Dictionary.build_ngram_for
build_ngram_for(substring, ngram_length) ==
    LastN(Repeat("^", ngram_length) \o substring, ngram_length)

\* Dictionary.build_ngrams_of_word: the list of ngrams of the augmented word
build_ngrams_of_word(w, ngram_length, with_ending) ==
    LET augmented_word == Repeat("^", ngram_length - 1) \o w
                          \o (IF with_ending THEN END_CHARACTER ELSE <<>>)
        count == Len(augmented_word) - ngram_length + 1
    IN  IF count <= 0 THEN <<>>
        ELSE [i \in 1..count |-> Slice(augmented_word, i - 1, i - 1 + ngram_length)]

RECURSIVE build_ngrams_of(_, _)
\* Dictionary.build_ngrams over a word list
build_ngrams_of(list, ngram_length) ==
    IF list = <<>> THEN <<>>
    ELSE build_ngrams_of_word(Head(list), ngram_length, TRUE)
         \o build_ngrams_of(Tail(list), ngram_length)

\* Dictionary.build_counter_of_ngrams: Counter(list), ngram -> occurences
build_counter_of_ngrams(list, ngram_length) ==
    LET ngrams == build_ngrams_of(list, ngram_length)
    IN  [g \in Range(ngrams) |-> Cardinality({i \in DOMAIN ngrams : ngrams[i] = g})]

----------------------------------------------------------------------------
(* Natural numbers of any size: little-endian sequences of limbs below   *)
(* LimbBase, without leading zero limbs (zero is the empty sequence).    *)

LimbBits == 14
LimbBase == 16384

RECURSIVE Pow2(_)
Pow2(n) == IF n = 0 THEN 1 ELSE 2 * Pow2(n - 1)

RECURSIVE BigNorm(_)
\* a without its most significant zero limbs
BigNorm(a) ==
    IF a = <<>> THEN <<>>
    ELSE IF a[Len(a)] = 0 THEN BigNorm(SubSeq(a, 1, Len(a) - 1))
    ELSE a

RECURSIVE BigFromInt(_)
BigFromInt(n) == IF n = 0 THEN <<>> ELSE <<n % LimbBase>> \o BigFromInt(n \div LimbBase)

RECURSIVE BigAdd(_, _, _)
\* a + b + carry
BigAdd(a, b, carry) ==
    IF a = <<>> /\ b = <<>> THEN (IF carry = 0 THEN <<>> ELSE <<carry>>)
    ELSE LET x == IF a = <<>> THEN 0 ELSE Head(a)
             y == IF b = <<>> THEN 0 ELSE Head(b)
             sum == x + y + carry
         IN  <<sum % LimbBase>>
             \o BigAdd(IF a = <<>> THEN a ELSE Tail(a), IF b = <<>> THEN b ELSE Tail(b),
                       sum \div LimbBase)

RECURSIVE BigSub(_, _, _)
\* a - b - borrow, for a >= b + borrow (limbs, not normalised)
BigSub(a, b, borrow) ==
    IF a = <<>> THEN <<>>
    ELSE LET y == IF b = <<>> THEN 0 ELSE Head(b)
             d == Head(a) - y - borrow
         IN  <<IF d < 0 THEN d + LimbBase ELSE d>>
             \o BigSub(Tail(a), IF b = <<>> THEN b ELSE Tail(b), IF d < 0 THEN 1 ELSE 0)

RECURSIVE BigMulSmall(_, _, _)
\* a * d + carry, for d < LimbBase
BigMulSmall(a, d, carry) ==
    IF a = <<>> THEN (IF carry = 0 THEN <<>> ELSE <<carry>>)
    ELSE LET product == Head(a) * d + carry
         IN  <<product % LimbBase>> \o BigMulSmall(Tail(a), d, product \div LimbBase)

RECURSIVE BigMul(_, _)
\* a * b
BigMul(a, b) ==
    IF a = <<>> \/ b = <<>> THEN <<>>
    ELSE BigNorm(BigAdd(BigMulSmall(a, Head(b), 0), <<0>> \o BigMul(a, Tail(b)), 0))

RECURSIVE BigDivSmall(_, _)
\* <<a \div d, a % d>>, for 0 < d < LimbBase (quotient not normalised)
BigDivSmall(a, d) ==
    IF a = <<>> THEN <<<<>>, 0>>
    ELSE LET high == BigDivSmall(Tail(a), d)
             current == high[2] * LimbBase + Head(a)
         IN  <<<<current \div d>> \o high[1], current % d>>

RECURSIVE SmallBitLen(_)
SmallBitLen(n) == IF n = 0 THEN 0 ELSE 1 + SmallBitLen(n \div 2)

\* the number of bits of a (normalised)
BigBitLen(a) ==
    IF a = <<>> THEN 0 ELSE (Len(a) - 1) * LimbBits + SmallBitLen(a[Len(a)])

\* 2^k
BigPow2(k) == [i \in 1..(k \div LimbBits) |-> 0] \o <<Pow2(k % LimbBits)>>

\* a * 2^k
BigShl(a, k) == BigMul(a, BigPow2(k))

\* a \div 2^k
BigShr(a, k) ==
    LET limbs == k \div LimbBits
    IN  IF limbs >= Len(a) THEN <<>>
        ELSE BigNorm(BigDivSmall(SubSeq(a, limbs + 1, Len(a)), Pow2(k % LimbBits))[1])

\* bit i of a (bit 0 is the least significant)
BigBit(a, i) ==
    LET limb == i \div LimbBits + 1
    IN  IF limb > Len(a) THEN 0 ELSE (a[limb] \div Pow2(i % LimbBits)) % 2

\* whether a % 2^k = 0
BigLowZero(a, k) ==
    LET limbs == k \div LimbBits
    IN  /\ \A i \in 1..limbs : i > Len(a) \/ a[i] = 0
        /\ limbs + 1 > Len(a) \/ a[limbs + 1] % Pow2(k % LimbBits) = 0

RECURSIVE BigLess(_, _)
\* a < b (normalised)
BigLess(a, b) ==
    IF Len(a) # Len(b) THEN Len(a) < Len(b)
    ELSE IF a = <<>> THEN FALSE
    ELSE IF a[Len(a)] # b[Len(b)] THEN a[Len(a)] < b[Len(b)]
    ELSE BigLess(SubSeq(a, 1, Len(a) - 1), SubSeq(b, 1, Len(b) - 1))

----------------------------------------------------------------------------
(* Probabilities: Python floats (IEEE 754 binary64, round to nearest even). *)
(* A float >= 0 is <<m, e>> for the value m * 2^e with m of exactly        *)
(* MantissaBits bits, or Zero.  Exponents are not limited: no word of the  *)
(* model comes near the subnormal range.  The ints 0 and 1 the code mixes  *)
(* with floats are the floats of the same value.                           *)

MantissaBits == 53

Zero == <<<<>>, 0>>

\* the float nearest to n * 2^e (plus a non-zero rest below it when sticky)
RoundToFloat(n, e, sticky) ==
    LET len == BigBitLen(n)
    IN  IF len = 0 THEN Zero
        ELSE IF len <= MantissaBits
        THEN <<BigShl(n, MantissaBits - len), e - (MantissaBits - len)>>
        ELSE LET shift == len - MantissaBits
                 kept == BigShr(n, shift)
                 half == BigBit(n, shift - 1) = 1
                 rest == sticky \/ ~BigLowZero(n, shift - 1)
                 up == half /\ (rest \/ BigBit(kept, 0) = 1)
                 m == IF up THEN BigAdd(kept, <<1>>, 0) ELSE kept
             IN  IF BigBitLen(m) > MantissaBits
                 THEN <<BigShr(m, 1), e + shift + 1>>
                 ELSE <<m, e + shift>>

One == RoundToFloat(<<1>>, 0, FALSE)

\* n / d for ints 0 <= n, 0 < d < LimbBase: true division, correctly rounded
Div(n, d) ==
    IF n = 0 THEN Zero
    ELSE LET scale == 5 * LimbBits
             division == BigDivSmall(BigShl(BigFromInt(n), scale), d)
         IN  RoundToFloat(BigNorm(division[1]), 0 - scale, division[2] # 0)

\* operator.mul on floats
Mul(p, q) ==
    IF p = Zero \/ q = Zero THEN Zero
    ELSE RoundToFloat(BigMul(p[1], q[1]), p[2] + q[2], FALSE)

\* 1 - p, for 0 <= p <= 1
OneMinus(p) ==
    IF p = Zero THEN One
    ELSE IF p[2] <= 0 - 2 * MantissaBits - 1 THEN One
    ELSE LET k == 0 - p[2]
         IN  RoundToFloat(BigNorm(BigSub(BigPow2(k), p[1], 0)), p[2], FALSE)

\* p < q
ProbLess(p, q) ==
    IF q = Zero THEN FALSE
    ELSE IF p = Zero THEN TRUE
    ELSE IF p[2] # q[2] THEN p[2] < q[2]
    ELSE BigLess(p[1], q[1])

\* p <= q
ProbLeq(p, q) == ~ProbLess(q, p)

----------------------------------------------------------------------------
(* WordMarkovModel *)

\* WordMarkovModel.build_prechain_from_ngram: ngram[:-1]
build_prechain_from_ngram(ngram) ==
    IF ngram = <<>> THEN <<>> ELSE SubSeq(ngram, 1, Len(ngram) - 1)

\* WordMarkovModel.build_postchain_from_ngram: ngram[-1:]
build_postchain_from_ngram(ngram) ==
    IF ngram = <<>> THEN <<>> ELSE <<ngram[Len(ngram)]>>

\* WordMarkovModel.__init__
ModelInit(order) ==
    /\ model_order = order
    /\ ngrams_counter = build_counter_of_ngrams(words, order + 1)
    /\ transitions = <<>>
    /\ trained = FALSE
    /\ trainings = 0

RECURSIVE SumOver(_, _)
\* the sum of f over the keys in S
SumOver(f, S) ==
    IF S = {} THEN 0
    ELSE LET k == CHOOSE x \in S : TRUE IN f[k] + SumOver(f, S \ {k})

\* len(transition_dict) in place of the sum of its values
OccurencesCount(transition_dict) == Cardinality(DOMAIN transition_dict)

\* sum(transition_dict.values()), before the '##sum' key is stored
OccurencesSum(transition_dict) == SumOver(transition_dict, DOMAIN transition_dict)

\* the first loop of train: prechain -> postchain -> occurences
TransitionCounts(counter) ==
    LET prechains == {build_prechain_from_ngram(g) : g \in DOMAIN counter}
        postchains(pre) ==
            {build_postchain_from_ngram(g) :
                g \in {h \in DOMAIN counter : build_prechain_from_ngram(h) = pre}}
    IN  [pre \in prechains |->
            [post \in postchains(pre) |-> counter[pre \o post]]]

\* the second loop of train: transition_dict['##sum'] = occurences_sum
WithSum(transition_dict) ==
    LET occurences_sum == OccurencesSum(transition_dict)
    IN  [k \in DOMAIN transition_dict \cup {SUM_KEY} |->
            IF k = SUM_KEY THEN occurences_sum ELSE transition_dict[k]]

\* WordMarkovModel.train
Train ==
    /\ trainings < MaxTrainings
    /\ gw_pc # "loop" /\ fm_pc # "loop"
    /\ LET counts == TransitionCounts(ngrams_counter)
       IN  transitions' = [pre \in DOMAIN counts |-> WithSum(counts[pre])]
    /\ trained' = TRUE
    /\ trainings' = trainings + 1
    /\ UNCHANGED <<dict_vars, model_order, ngrams_counter, raised, fwp, gw_vars, fm_vars>>

\* WordMarkovModel.find_ngram_probability
find_ngram_probability(ngram) ==
    LET prechain == build_prechain_from_ngram(ngram)
        postchain == build_postchain_from_ngram(ngram)
    IN  IF prechain \notin DOMAIN transitions THEN Zero
        ELSE LET transition == transitions[prechain]
             IN  IF postchain \in DOMAIN transition
                 THEN Div(transition[postchain], transition[SUM_KEY])
                 ELSE Zero

RECURSIVE Reduce(_, _)
\* reduce(mul, ngrams_probabilities, initial)
Reduce(ngrams_probabilities, initial) ==
    IF ngrams_probabilities = <<>> THEN initial
    ELSE Reduce(Tail(ngrams_probabilities), Mul(initial, Head(ngrams_probabilities)))

\* reduce(mul, ngrams_probabilities, 0)
TotalProbabilityFromZero(ngrams_probabilities) == Reduce(ngrams_probabilities, Zero)

\* reduce(mul, ngrams_probabilities, 1)
TotalProbability(ngrams_probabilities) == Reduce(ngrams_probabilities, One)

\* WordMarkovModel.find_word_probability: (total_probability, ngrams_probabilities)
find_word_probability(w, with_ending) ==
    LET word_ngrams == build_ngrams_of_word(w, model_order + 1, with_ending)
        ngrams_probabilities ==
            [i \in DOMAIN word_ngrams |-> find_ngram_probability(word_ngrams[i])]
    IN  <<TotalProbability(ngrams_probabilities), ngrams_probabilities>>

\* the words scored: over a letter of the dictionaries and a letter they lack
QueryWords == SeqsUpTo({"a", "x"}, MaxQueryLen)

\* a call of find_word_probability on the trained model
FindWordProbability ==
    /\ trained /\ ~fwp.called
    /\ \E w \in QueryWords, with_ending \in BOOLEAN :
          fwp' = [called |-> TRUE, word |-> w, with_ending |-> with_ending,
                  result |-> find_word_probability(w, with_ending)]
    /\ UNCHANGED <<dict_vars, model_vars, raised, gw_vars, fm_vars>>

----------------------------------------------------------------------------
(* generate_word *)

RECURSIVE SortedKeys(_)
\* the keys of S in ascending str order
SortedKeys(S) ==
    IF S = {} THEN <<>>
    ELSE LET least == CHOOSE k \in S : \A other \in S : ~StrLess(other, k)
         IN  <<least>> \o SortedKeys(S \ {least})

\* transition.items() without '##sum': train inserts the postchains of a
\* prechain in sorted ngram order, and a dict iterates in insertion order
TransitionItems(transition) ==
    LET keys == SortedKeys(DOMAIN transition \ {SUM_KEY})
    IN  [i \in DOMAIN keys |-> <<keys[i], transition[keys[i]]>>]

RECURSIVE WithoutKey(_, _)
\* list(filter(lambda x: x[0] != key, transition_items))
WithoutKey(transition_items, key) ==
    IF transition_items = <<>> THEN <<>>
    ELSE (IF Head(transition_items)[1] # key THEN <<Head(transition_items)>> ELSE <<>>)
         \o WithoutKey(Tail(transition_items), key)

RECURSIVE ScanIndex(_, _, _, _)
\* the cumulative-count scan: the 1-based index it breaks at; Len + 1 when the
\* scan would index past the end of the list (IndexError)
ScanIndex(transition_items, random_number, current_sum, transition_index) ==
    LET index == transition_index + 1
    IN  IF index > Len(transition_items) THEN index
        ELSE LET sum == current_sum + transition_items[index][2]
             IN  IF random_number <= sum THEN index
                 ELSE ScanIndex(transition_items, random_number, sum, index)

\* the candidates of generate_next_character and the upper end of randint
Candidates(word_ngram, end_character) ==
    LET transition == transitions[word_ngram]
        all_items == TransitionItems(transition)
        exclude == end_character = FALSE /\ END_CHARACTER \in DOMAIN transition
    IN  [items |-> IF exclude THEN WithoutKey(all_items, END_CHARACTER) ELSE all_items,
         upper |-> transition[SUM_KEY]
                   - (IF exclude THEN transition[END_CHARACTER] ELSE 0)]

\* WordMarkovModel.generate_next_character for one draw of randint:
\* [character, forced, error]
generate_next_character(word_ngram, end_character, random_number) ==
    IF word_ngram \notin DOMAIN transitions
    THEN [character |-> <<>>, forced |-> FALSE, error |-> "KeyError"]
    ELSE LET c == Candidates(word_ngram, end_character)
         IN  IF Len(c.items) = 0
             THEN [character |-> END_CHARACTER, forced |-> TRUE, error |-> "none"]
             ELSE LET index == ScanIndex(c.items, random_number, 0, 0)
                  IN  IF index > Len(c.items)
                      THEN [character |-> <<>>, forced |-> FALSE, error |-> "IndexError"]
                      ELSE [character |-> c.items[index][1], forced |-> FALSE,
                            error |-> "none"]

\* the values randint(1, upper) can return for this lookup (one dummy draw
\* when randint is not reached)
Draws(word_ngram, end_character) ==
    IF word_ngram \notin DOMAIN transitions THEN {0}
    ELSE LET c == Candidates(word_ngram, end_character)
         IN  IF Len(c.items) = 0 THEN {0} ELSE 1..c.upper

RECURSIVE Strip(_, _)
\* s.replace(c, '')
Strip(s, c) ==
    IF s = <<>> THEN <<>>
    ELSE (IF <<Head(s)>> = c THEN <<>> ELSE <<Head(s)>>) \o Strip(Tail(s), c)

\* the loop condition of generate_word
GwContinue == next_character # END_CHARACTER /\ Len(word) <= max_length

\* generate_word is called: word = '', next_character = ''
GenerateWordCall ==
    /\ trained /\ gw_pc = "idle" /\ fm_pc = "idle"
    /\ \E lo \in 0..MaxLen, hi \in 0..MaxLen :
          /\ min_length' = lo
          /\ max_length' = hi
    /\ word' = <<>>
    /\ next_character' = <<>>
    /\ gw_pc' = "loop"
    /\ gw_steps' = 0
    /\ UNCHANGED <<dict_vars, model_vars, raised, fwp, gw_forced, gw_result, gw_ngram,
                   fm_vars>>

\* one iteration of the while loop of generate_word
GenerateWordStep ==
    /\ gw_pc = "loop" /\ GwContinue
    /\ LET word_ngram == build_ngram_for(word, model_order)
           end_character == ~(Len(word) < min_length)
       IN  \E random_number \in Draws(word_ngram, end_character) :
              LET got == generate_next_character(word_ngram, end_character, random_number)
              IN  /\ gw_ngram' = word_ngram
                  /\ gw_steps' = gw_steps + 1
                  /\ IF got.error # "none"
                     THEN /\ raised' = got.error
                          /\ gw_pc' = "done"
                          /\ UNCHANGED <<word, next_character, gw_forced>>
                     ELSE /\ next_character' = got.character
                          /\ word' = word \o got.character
                          /\ gw_forced' = (gw_forced \/ got.forced)
                          /\ UNCHANGED <<raised, gw_pc>>
    /\ UNCHANGED <<dict_vars, model_vars, fwp, min_length, max_length, gw_result, fm_vars>>

\* the loop of generate_word ends and the stripped word is returned
GenerateWordReturn ==
    /\ gw_pc = "loop" /\ ~GwContinue
    /\ gw_result' = Strip(Strip(word, START_CHARACTER), END_CHARACTER)
    /\ gw_pc' = "done"
    /\ UNCHANGED <<dict_vars, model_vars, raised, fwp, min_length, max_length, word,
                   next_character, gw_steps, gw_forced, gw_ngram, fm_vars>>

----------------------------------------------------------------------------
(* find_most_probable_words *)

\* word_entry: (1 - word_probability, word)
word_entry(w, word_probability) == <<OneMinus(word_probability), w>>

\* tuple comparison of two entries
EntryLess(e, f) ==
    \/ ProbLess(e[1], f[1])
    \/ e[1] = f[1] /\ StrLess(e[2], f[2])

\* PriorityQueue.get: the least entry
QueueGet(queue) == CHOOSE e \in queue : \A f \in queue : ~EntryLess(f, e)

\* WordMarkovModel.transition_occurences_to_probabilities
transition_occurences_to_probabilities(transition) ==
    LET occurences_sum == transition[SUM_KEY]
        transition_items == TransitionItems(transition)
    IN  [i \in DOMAIN transition_items |->
            <<transition_items[i][1], Div(transition_items[i][2], occurences_sum)>>]

\* current_word_probability * probability, the probability of an extended word
ChildProbability(current_word_probability, probability) ==
    Mul(current_word_probability, probability)

\* the loop condition of find_most_probable_words
FmContinue == most_probable_queue # {} /\ Len(most_probable_words) < words_count

\* find_most_probable_words is called: the queue holds the empty word
FindMostProbableWordsCall ==
    /\ trained /\ fm_pc = "idle" /\ gw_pc = "idle"
    /\ \E k \in 1..MaxK : words_count' = k
    /\ most_probable_words' = <<>>
    /\ most_probable_queue' = {word_entry(<<>>, find_word_probability(<<>>, FALSE)[1])}
    /\ iteration' = 0
    /\ max_queue_size' = 0
    /\ fm_pc' = "loop"
    /\ UNCHANGED <<dict_vars, model_vars, raised, fwp, gw_vars, current_entry, fm_ngram,
                   fm_result>>

\* one iteration of the while loop of find_most_probable_words
FindMostProbableWordsStep ==
    /\ fm_pc = "loop" /\ FmContinue
    /\ iteration' = iteration + 1
    /\ LET current_queue_size == Cardinality(most_probable_queue)
       IN  max_queue_size' = IF current_queue_size > max_queue_size
                             THEN current_queue_size ELSE max_queue_size
    /\ LET entry == QueueGet(most_probable_queue)
           rest == most_probable_queue \ {entry}
           current_word == entry[2]
           current_word_probability == OneMinus(entry[1])
           current_ngram == build_ngram_for(current_word, model_order)
       IN  /\ current_entry' = entry
           /\ IF LastN(current_word, 1) = END_CHARACTER /\ current_word # <<>>
              THEN /\ most_probable_words' =
                          Append(most_probable_words,
                                 SubSeq(current_word, 1, Len(current_word) - 1))
                   /\ most_probable_queue' = rest
                   /\ UNCHANGED <<raised, fm_pc, fm_ngram>>
              ELSE /\ fm_ngram' = current_ngram
                   /\ IF current_ngram \notin DOMAIN transitions
                      THEN /\ raised' = "KeyError"
                           /\ fm_pc' = "done"
                           /\ most_probable_queue' = rest
                           /\ UNCHANGED most_probable_words
                      ELSE LET current_transitions ==
                                   transition_occurences_to_probabilities(
                                       transitions[current_ngram])
                           IN  /\ most_probable_queue' = rest \cup
                                      {word_entry(current_word \o t[1],
                                                  ChildProbability(current_word_probability,
                                                                  t[2])) :
                                          t \in Range(current_transitions)}
                               /\ UNCHANGED <<raised, fm_pc, most_probable_words>>
    /\ UNCHANGED <<dict_vars, model_vars, fwp, gw_vars, words_count, fm_result>>

\* the loop ends: every word found is paired with its probability, with ending
FindMostProbableWordsReturn ==
    /\ fm_pc = "loop" /\ ~FmContinue
    /\ fm_result' = [i \in DOMAIN most_probable_words |->
                        <<most_probable_words[i],
                          find_word_probability(most_probable_words[i], TRUE)>>]
    /\ fm_pc' = "done"
    /\ UNCHANGED <<dict_vars, model_vars, raised, fwp, gw_vars, words_count,
                   most_probable_words, most_probable_queue, iteration, max_queue_size,
                   current_entry, fm_ngram>>

----------------------------------------------------------------------------
(* Initial states and specifications *)

\* the word lists a dictionary file over the letters can hold
Loaded(letters) == SeqsUpTo(SeqsUpTo(letters, MaxWordLen), MaxWords)

NoCall ==
    /\ raised = "none"
    /\ fwp = [called |-> FALSE, word |-> <<>>, with_ending |-> FALSE,
              result |-> <<One, <<>>>>]

GwIdle ==
    /\ gw_pc = "idle" /\ min_length = 0 /\ max_length = 0 /\ word = <<>>
    /\ next_character = <<>> /\ gw_steps = 0 /\ gw_forced = FALSE
    /\ gw_result = <<>> /\ gw_ngram = <<>>

FmIdle ==
    /\ fm_pc = "idle" /\ words_count = 0 /\ most_probable_words = <<>>
    /\ most_probable_queue = {} /\ iteration = 0 /\ max_queue_size = 0
    /\ current_entry = <<Zero, <<>>>> /\ fm_ngram = <<>> /\ fm_result = <<>>

NoModel ==
    /\ model_order = 0 /\ ngrams_counter = <<>> /\ transitions = <<>>
    /\ trained = FALSE /\ trainings = 0

\* Dictionary alone: filter_words and map_words on a loaded dictionary
InitDict ==
    /\ \E loaded \in Loaded({"a", "A"}), sort \in BOOLEAN : DictionaryInit(loaded, sort)
    /\ NoModel /\ NoCall /\ GwIdle /\ FmIdle

FilterWords ==
    /\ \E filter_predicate \in Predicates : filter_words(filter_predicate)
    /\ UNCHANGED <<model_vars, raised, fwp, gw_vars, fm_vars>>

MapWords ==
    /\ \E transform \in Transforms :
          /\ \A w \in Range(words) : Len(ApplyTransform(transform, w)) < MaxStrLen
          /\ map_words(transform)
    /\ UNCHANGED <<model_vars, raised, fwp, gw_vars, fm_vars>>

NextDict == FilterWords \/ MapWords

SpecDict == InitDict /\ [][NextDict]_vars

\* the dictionary of the scenario: cat, car, can
ScenarioWords == <<<<"c", "a", "t">>, <<"c", "a", "r">>, <<"c", "a", "n">>>>

\* a dictionary with two words of one probability, 4/45, whose factors
\* differ: aa, aba, bab
RoundingWords == <<<<"a", "a">>, <<"a", "b", "a">>, <<"b", "a", "b">>>>

\* A model built on a sorted dictionary, trained and queried
InitModel ==
    /\ \E loaded \in Loaded(Letters) \cup {ScenarioWords, RoundingWords} : DictionaryInit(loaded, TRUE)
    /\ \E order \in 0..MaxOrder : ModelInit(order)
    /\ NoCall /\ GwIdle /\ FmIdle

\* train() alone, run up to MaxTrainings times
NextTrain == Train

SpecTrain == InitModel /\ [][NextTrain]_vars

\* the model is trained once before it is queried
TrainOnce == trainings = 0 /\ Train

NextScore == TrainOnce \/ FindWordProbability

SpecScore == InitModel /\ [][NextScore]_vars

NextGen == TrainOnce \/ GenerateWordCall \/ GenerateWordStep \/ GenerateWordReturn

SpecGen == InitModel /\ [][NextGen]_vars

NextTopK ==
    TrainOnce \/ FindMostProbableWordsCall \/ FindMostProbableWordsStep
    \/ FindMostProbableWordsReturn

SpecTopK == InitModel /\ [][NextTopK]_vars

NextAll == NextGen \/ NextTopK

SpecAll == InitModel /\ [][NextAll]_vars

----------------------------------------------------------------------------
(* Properties *)

\* the ngrams of the dictionary's words, of length model_order + 1
DictionaryNgrams == build_ngrams_of(words, model_order + 1)

\* how many of the ngrams start with the prechain
NgramsStartingWith(ngrams, prechain) ==
    Cardinality({i \in DOMAIN ngrams : build_prechain_from_ngram(ngrams[i]) = prechain})

\* how many of the ngrams are the ngram
NgramOccurences(ngrams, ngram) ==
    Cardinality({i \in DOMAIN ngrams : ngrams[i] = ngram})

RECURSIVE ProductOf(_)
\* the product of the probabilities, multiplied from the left
ProductOf(probabilities) ==
    IF probabilities = <<>> THEN One
    ELSE LET n == Len(probabilities)
         IN  Mul(ProductOf(SubSeq(probabilities, 1, n - 1)), probabilities[n])

\* the probability find_most_probable_words reports for its i-th word
ReportedProbability(i) == fm_result[i][2][1]

\* every str over the dictionary's letters, up to one longer than MaxWordLen
DictionaryLetters == UNION {Range(words[i]) : i \in DOMAIN words}
CandidateWords == SeqsUpTo(DictionaryLetters, MaxWordLen + 1)

\* the probability of w, with ending, by find_word_probability
WithEndingProbability(w) == find_word_probability(w, TRUE)[1]

\* C1 (as claimed): the probabilities find_most_probable_words returns with
\* its words are in non-increasing order: each is >= the one after it.
C1_NonIncreasing ==
    (fm_pc = "done" /\ raised = "none") =>
        \A i \in 1..(Len(fm_result) - 1) :
            ProbLeq(ReportedProbability(i + 1), ReportedProbability(i))

\* the last entry got from the queue was a completed word, emitted just now
JustEmitted ==
    /\ most_probable_words # <<>>
    /\ current_entry[2] = most_probable_words[Len(most_probable_words)] \o END_CHARACTER

\* C2 (as claimed): a word emitted by find_most_probable_words has the highest
\* with-ending probability among the candidates not yet emitted: no entry left in the
\* frontier and no word not yet emitted has a strictly higher probability;
\* the words returned are therefore most probable words of the model.
C2_EmittedIsMaximal ==
    (fm_pc # "idle" /\ raised = "none" /\ most_probable_words # <<>>) =>
        LET emitted == most_probable_words[Len(most_probable_words)]
            p == WithEndingProbability(emitted)
            others == CandidateWords \ Range(most_probable_words)
        IN  /\ \A e \in most_probable_queue : ProbLeq(OneMinus(e[1]), p)
            /\ (fm_pc = "loop" /\ JustEmitted) =>
                  \A w \in others : ProbLeq(WithEndingProbability(w), p)
            /\ fm_pc = "done" =>
                  \A w \in others :
                      LET q == WithEndingProbability(w)
                      IN  \A i \in DOMAIN fm_result : ProbLeq(q, ReportedProbability(i))

\* C3 (as claimed): with every dictionary word at least min_length long and
\* min_length <= max_length, the word generate_word returns is never longer
\* than max_length, and is shorter than min_length only when END was forced.
C3_LengthWithinBounds ==
    (/\ gw_pc = "done" /\ raised = "none"
     /\ min_length <= max_length
     /\ \A i \in DOMAIN words : Len(words[i]) >= min_length) =>
        /\ Len(gw_result) <= max_length
        /\ Len(gw_result) >= min_length \/ gw_forced

\* C4 (as claimed): after any filter_words and map_words calls, w in dictionary
\* is true exactly for the strings of the word list.
C4_SetViewAgrees ==
    \A w \in Range(words) \cup words_set : Contains(w) <=> w \in Range(words)

\* C5: after train, however often it ran, the cached total of every prechain
\* of the table is the sum of its postchains' occurences, and is the number
\* of ngrams of the dictionary's words that start with the prechain.
C5_TotalsAreSums ==
    trained =>
        LET all == DictionaryNgrams
        IN  \A prechain \in DOMAIN transitions :
                LET transition == transitions[prechain]
                IN  /\ transition[SUM_KEY] =
                          SumOver(transition, DOMAIN transition \ {SUM_KEY})
                    /\ transition[SUM_KEY] = NgramsStartingWith(all, prechain)

\* train ran twice and a prechain has two postchains, one seen more than once
C5_Witness ==
    /\ trainings = 2
    /\ \E prechain \in DOMAIN transitions :
          /\ Cardinality(DOMAIN transitions[prechain]) >= 3
          /\ \E k \in DOMAIN transitions[prechain] \ {SUM_KEY} :
                transitions[prechain][k] >= 2

\* C6: find_word_probability returns one probability per ngram of the word,
\* each the postchain's occurences over the prechain's total (0 when the
\* prechain or the postchain was never seen), and a total in [0, 1] that is
\* their product (1 when there are none).
C6_TotalIsProduct ==
    fwp.called =>
        LET total == fwp.result[1]
            probabilities == fwp.result[2]
            ngrams == build_ngrams_of_word(fwp.word, model_order + 1, fwp.with_ending)
            all == DictionaryNgrams
            expected(g) ==
                LET seen == NgramsStartingWith(all, build_prechain_from_ngram(g))
                IN  IF seen = 0 THEN Zero ELSE Div(NgramOccurences(all, g), seen)
        IN  /\ Len(probabilities) = Len(ngrams)
            /\ Len(ngrams) = Len(fwp.word) + (IF fwp.with_ending THEN 1 ELSE 0)
            /\ \A i \in DOMAIN ngrams : probabilities[i] = expected(ngrams[i])
            /\ total = ProductOf(probabilities)
            /\ ProbLeq(Zero, total) /\ ProbLeq(total, One)

\* a word scored with ending whose total is strictly between 0 and 1
C6_Witness ==
    /\ fwp.called /\ fwp.with_ending /\ Len(fwp.word) >= 2
    /\ ProbLess(Zero, fwp.result[1]) /\ ProbLess(fwp.result[1], One)

\* the scenario: the dictionary cat, car, can, order 2, three words asked for
ScenarioDone ==
    /\ words = Sorted(ScenarioWords) /\ model_order = 2
    /\ words_count = 3 /\ fm_pc = "done"

ScenarioResult ==
    /\ raised = "none"
    /\ Len(fm_result) = 3
    /\ {fm_result[i][1] : i \in DOMAIN fm_result} = Range(ScenarioWords)
    /\ \A i \in DOMAIN fm_result : ReportedProbability(i) = Div(1, 3)

\* C7 (as claimed): in the scenario find_most_probable_words(3) returns cat,
\* car and can, each with probability 1/3, in at most 7 iterations.
C7_ScenarioIn7 == ScenarioDone => (ScenarioResult /\ iteration <= 7)

\* C7 (amended): in the scenario find_most_probable_words(3) returns cat, car
\* and can, each with probability 1/3, in at most 9 iterations.
C7_ScenarioIn9 == ScenarioDone => (ScenarioResult /\ iteration <= 9)

C7_Witness == ScenarioDone /\ Len(fm_result) = 3

\* C8 (as claimed): find_most_probable_words never raises; asked for more
\* words than the model can produce it ends with the frontier exhausted and
\* returns fewer than words_count words.
C8_NeverRaises ==
    fm_pc = "done" =>
        /\ raised = "none"
        /\ Len(fm_result) <= words_count
        /\ Len(fm_result) < words_count => most_probable_queue = {}

\* a lookup of find_most_probable_words happened (an entry was expanded)
FmLookedUp == fm_pc # "idle" /\ iteration > Len(most_probable_words)

\* C9 (as claimed): the prechain looked up at every step of generate_word and
\* of find_most_probable_words is model_order symbols long and, the table
\* having transitions (a non-empty dictionary), is a key of the table.
C9_PrechainOfOrderLength ==
    /\ gw_steps > 0 =>
          /\ Len(gw_ngram) = model_order
          /\ words # <<>> => gw_ngram \in DOMAIN transitions
    /\ FmLookedUp =>
          /\ Len(fm_ngram) = model_order
          /\ words # <<>> => fm_ngram \in DOMAIN transitions

\* C10 (as claimed): on a non-empty dictionary generate_word ends after at
\* most max_length + 1 steps, every step appends one symbol, and the scan of
\* generate_next_character stops inside the candidate list.
C10_TerminatesInSteps ==
    (gw_pc # "idle" /\ words # <<>>) =>
        /\ raised = "none"
        /\ Len(word) = gw_steps
        /\ gw_steps <= max_length + 1
        /\ (gw_pc = "loop" /\ gw_steps = max_length + 1) => ~GwContinue

====
